---- MODULE Spec2Model ----
(***************************************************************************)
(* A model of the Befunge-93 interpreter of src/rust/src/lib.rs: the       *)
(* Command codec, the program counter, the stack, the playfield, and the   *)
(* Interpreter's load, step and run.                                       *)
(*                                                                         *)
(* Characters are modelled by their code points.  Every char the program   *)
(* ever builds comes from a u8 (`item as char`, `val as char`,             *)
(* `(n + 48) as char`), so it lies in 0..255.  Stack values are i64 in the *)
(* source; the values the model's programs build stay far inside the i64   *)
(* range, so +, - and * never overflow here.                               *)
(***************************************************************************)
EXTENDS Integers, Sequences, FiniteSets, TLC

VARIABLES
    playfield,   \* Interpreter.playfield: [row -> [col -> Command]]
    pc,          \* Interpreter.pc: [x, y]
    dir,         \* Interpreter.dir
    stack,       \* Interpreter.stack: Vec<i64>, top at the end
    stringmode,  \* Interpreter.stringmode
    output,      \* Interpreter.output: the String, as a sequence of code points
    stdin,       \* the bytes still unread on the process's standard input
    phase,       \* where the driver is: "idle", inside run ("step", "pred"),
                 \* or after run ("ok", "err", "panic")
    iter_n,      \* run's local iter_n
    run_err,     \* the error run returned ("none" when it did not fail)
    prog,        \* history: the byte stream given to the last load
    loads,       \* history: how many times load has been called
    run_no,      \* history: how many times run has been entered
    nsteps,      \* history: calls of step made by the current run
    calls,       \* history: the step counts the predicate was called with
    preds,       \* history: the values the predicate returned
    last,        \* history: the engine state before the last step, and its result
    impure,      \* history: a Put, Rand, InI or InC was executed since load
    ref,         \* history: <<pc, stack, output, result>> after each step of the
                 \* first run
    written,     \* history: cell -> the value of the last successful Put to it
    codec        \* the codec round trip under SpecCodec: [at, b, d, e, d2]

vars == <<playfield, pc, dir, stack, stringmode, output, stdin, phase, iter_n,
          run_err, prog, loads, run_no, nsteps, calls, preds, last, impure,
          ref, written, codec>>

----------------------------------------------------------------------------
(* Program constants *)

PLAYFIELD_ROWS == 25
PLAYFIELD_COLS == 80

(* Bounds of the model *)

MaxSteps == 9    \* step calls per run
MaxRuns == 2     \* runs per engine
MaxLoads == 2    \* loads into one engine

----------------------------------------------------------------------------
(* Command: enum Command.  The unit variants carry arg 0. *)

Cmd(t) == [tag |-> t, arg |-> 0]
Num(n) == [tag |-> "Num", arg |-> n]
Char(c) == [tag |-> "Char", arg |-> c]

NamedOps == {"Add", "Sub", "Mul", "Div", "Mod", "Not", "Gt", "Right", "Left",
             "Up", "Down", "Rand", "IfH", "IfV", "Str", "Dup", "Swap", "Pop",
             "OutI", "OutC", "Bri", "Get", "Put", "InI", "InC", "End"}

Bytes == 0..255

(* `x as u8` on an integer or a char: the low eight bits. *)
as_u8_identity(x) == x

as_u8(x) == x % 256

as_char_gt_quote(cmd) ==
    CASE cmd.tag = "Add" -> 43   [] cmd.tag = "Sub" -> 45
      [] cmd.tag = "Mul" -> 42   [] cmd.tag = "Div" -> 47
      [] cmd.tag = "Mod" -> 37   [] cmd.tag = "Not" -> 33
      [] cmd.tag = "Gt" -> 39    \* '\'' where the source has '`'
      [] cmd.tag = "Right" -> 62 [] cmd.tag = "Left" -> 60
      [] cmd.tag = "Up" -> 94    [] cmd.tag = "Down" -> 118
      [] cmd.tag = "Rand" -> 63  [] cmd.tag = "IfH" -> 95
      [] cmd.tag = "IfV" -> 124  [] cmd.tag = "Str" -> 34
      [] cmd.tag = "Dup" -> 58   [] cmd.tag = "Swap" -> 92
      [] cmd.tag = "Pop" -> 36   [] cmd.tag = "OutI" -> 46
      [] cmd.tag = "OutC" -> 44  [] cmd.tag = "Bri" -> 35
      [] cmd.tag = "Get" -> 103  [] cmd.tag = "Put" -> 112
      [] cmd.tag = "InI" -> 38   [] cmd.tag = "InC" -> 126
      [] cmd.tag = "End" -> 64   [] cmd.tag = "Space" -> 32
      [] cmd.tag = "Num" -> (cmd.arg + 48) % 256
      [] cmd.tag = "Char" -> cmd.arg

(* Command::as_char *)
as_char(cmd) ==
    CASE cmd.tag = "Add" -> 43    \* '+'
      [] cmd.tag = "Sub" -> 45    \* '-'
      [] cmd.tag = "Mul" -> 42    \* '*'
      [] cmd.tag = "Div" -> 47    \* '/'
      [] cmd.tag = "Mod" -> 37    \* '%'
      [] cmd.tag = "Not" -> 33    \* '!'
      [] cmd.tag = "Gt" -> 96     \* '`'
      [] cmd.tag = "Right" -> 62  \* '>'
      [] cmd.tag = "Left" -> 60   \* '<'
      [] cmd.tag = "Up" -> 94     \* '^'
      [] cmd.tag = "Down" -> 118  \* 'v'
      [] cmd.tag = "Rand" -> 63   \* '?'
      [] cmd.tag = "IfH" -> 95    \* '_'
      [] cmd.tag = "IfV" -> 124   \* '|'
      [] cmd.tag = "Str" -> 34    \* '"'
      [] cmd.tag = "Dup" -> 58    \* ':'
      [] cmd.tag = "Swap" -> 92   \* '\\'
      [] cmd.tag = "Pop" -> 36    \* '$'
      [] cmd.tag = "OutI" -> 46   \* '.'
      [] cmd.tag = "OutC" -> 44   \* ','
      [] cmd.tag = "Bri" -> 35    \* '#'
      [] cmd.tag = "Get" -> 103   \* 'g'
      [] cmd.tag = "Put" -> 112   \* 'p'
      [] cmd.tag = "InI" -> 38    \* '&'
      [] cmd.tag = "InC" -> 126   \* '~'
      [] cmd.tag = "End" -> 64    \* '@'
      [] cmd.tag = "Space" -> 32  \* ' '
      [] cmd.tag = "Num" -> as_u8(cmd.arg + 48)
      [] cmd.tag = "Char" -> cmd.arg

from_char_no_gt(c) ==
    CASE c = 43 -> Cmd("Add")    [] c = 45 -> Cmd("Sub")
      [] c = 42 -> Cmd("Mul")    [] c = 47 -> Cmd("Div")
      [] c = 37 -> Cmd("Mod")    [] c = 33 -> Cmd("Not")
      [] c = 62 -> Cmd("Right")  [] c = 60 -> Cmd("Left")
      [] c = 94 -> Cmd("Up")     [] c = 118 -> Cmd("Down")
      [] c = 63 -> Cmd("Rand")   [] c = 95 -> Cmd("IfH")
      [] c = 124 -> Cmd("IfV")   [] c = 34 -> Cmd("Str")
      [] c = 58 -> Cmd("Dup")    [] c = 92 -> Cmd("Swap")
      [] c = 36 -> Cmd("Pop")    [] c = 46 -> Cmd("OutI")
      [] c = 44 -> Cmd("OutC")   [] c = 35 -> Cmd("Bri")
      [] c = 103 -> Cmd("Get")   [] c = 112 -> Cmd("Put")
      [] c = 38 -> Cmd("InI")    [] c = 126 -> Cmd("InC")
      [] c = 64 -> Cmd("End")    [] c = 32 -> Cmd("Space")
      [] c \in 48..57 -> Num(c - 48)
      [] OTHER -> Char(c)        \* the arm for '`' is missing

(* impl From<char> for Command *)
from_char(c) ==
    CASE c = 43 -> Cmd("Add")
      [] c = 45 -> Cmd("Sub")
      [] c = 42 -> Cmd("Mul")
      [] c = 47 -> Cmd("Div")
      [] c = 37 -> Cmd("Mod")
      [] c = 33 -> Cmd("Not")
      [] c = 96 -> Cmd("Gt")
      [] c = 62 -> Cmd("Right")
      [] c = 60 -> Cmd("Left")
      [] c = 94 -> Cmd("Up")
      [] c = 118 -> Cmd("Down")
      [] c = 63 -> Cmd("Rand")
      [] c = 95 -> Cmd("IfH")
      [] c = 124 -> Cmd("IfV")
      [] c = 34 -> Cmd("Str")
      [] c = 58 -> Cmd("Dup")
      [] c = 92 -> Cmd("Swap")
      [] c = 36 -> Cmd("Pop")
      [] c = 46 -> Cmd("OutI")
      [] c = 44 -> Cmd("OutC")
      [] c = 35 -> Cmd("Bri")
      [] c = 103 -> Cmd("Get")
      [] c = 112 -> Cmd("Put")
      [] c = 38 -> Cmd("InI")
      [] c = 126 -> Cmd("InC")
      [] c = 64 -> Cmd("End")
      [] c = 32 -> Cmd("Space")
      [] c \in 48..57 -> Num(c - 48)     \* c.to_digit(10).unwrap() as u8
      [] OTHER -> Char(c)

----------------------------------------------------------------------------
(* ProgramCounter *)

pc_init == [x |-> 0, y |-> 0]

right_raster(p) ==
    IF p.x + 1 = PLAYFIELD_COLS
    THEN [x |-> 0, y |-> (p.y + 1) % PLAYFIELD_ROWS]
    ELSE [p EXCEPT !.x = p.x + 1]

right(p) == [p EXCEPT !.x = (p.x + 1) % PLAYFIELD_COLS]

left(p) == [p EXCEPT !.x = IF p.x = 0 THEN PLAYFIELD_COLS - 1 ELSE p.x - 1]

down(p) == [p EXCEPT !.y = (p.y + 1) % PLAYFIELD_ROWS]

up(p) == [p EXCEPT !.y = IF p.y = 0 THEN PLAYFIELD_ROWS - 1 ELSE p.y - 1]

Directions == {"Up", "Down", "Left", "Right"}

(* Interpreter::advance_pc *)
advance_pc(p, d) ==
    CASE d = "Right" -> right(p)
      [] d = "Left" -> left(p)
      [] d = "Up" -> up(p)
      [] d = "Down" -> down(p)

----------------------------------------------------------------------------
(* Stack: the value popped and the stack left behind *)

pop_empty_is_one(st) ==
    IF st = <<>>
    THEN [val |-> 1, stack |-> <<>>]
    ELSE [val |-> st[Len(st)], stack |-> SubSeq(st, 1, Len(st) - 1)]

pop(st) ==
    IF st = <<>>
    THEN [val |-> 0, stack |-> <<>>]
    ELSE [val |-> st[Len(st)], stack |-> SubSeq(st, 1, Len(st) - 1)]

push(st, val) == Append(st, val)

peek_bottom(st) == IF st = <<>> THEN 0 ELSE st[1]

peek(st) == IF st = <<>> THEN 0 ELSE st[Len(st)]

----------------------------------------------------------------------------
(* Numeric conversions *)

(* A usize of a 64-bit target, as four 16-bit limbs, most significant      *)
(* first.  limbs(n) is the usize n for 0 <= n < 2^31.                      *)
limbs(n) == <<0, 0, n \div 65536, n % 65536>>

(* `v as usize` for an i64 v: the two's complement bits of v, which for a  *)
(* negative v are the complement of the bits of -v - 1.                    *)
as_usize(v) ==
    IF v >= 0
    THEN limbs(v)
    ELSE [i \in 1..4 |-> 65535 - limbs(-v - 1)[i]]

(* u >= n for a usize u and a constant n < 2^16 *)
usize_ge(u, n) == u[1] # 0 \/ u[2] # 0 \/ u[3] # 0 \/ u[4] >= n

(* The array index a usize below 2^16 denotes *)
usize_index(u) == u[4]

abs(x) == IF x >= 0 THEN x ELSE -x

(* i64 `/` and `%`: the quotient truncates toward zero *)
tdiv(x, y) ==
    LET q == abs(x) \div abs(y) IN IF (x < 0) # (y < 0) THEN -q ELSE q

trem(x, y) == x - y * tdiv(x, y)

RECURSIVE digits(_)
digits(n) == IF n < 10 THEN <<48 + n>> ELSE digits(n \div 10) \o <<48 + (n % 10)>>

fmt_int_no_space(x) == IF x < 0 THEN <<45>> \o digits(-x) ELSE digits(x)

(* format!("{} ", x) for an i64 x *)
fmt_int(x) == (IF x < 0 THEN <<45>> \o digits(-x) ELSE digits(x)) \o <<32>>

RECURSIVE digits_value(_, _)
digits_value(s, acc) ==
    IF s = <<>> THEN acc ELSE digits_value(Tail(s), 10 * acc + (Head(s) - 48))

(* str::parse::<i64>: an optional sign, then at least one decimal digit *)
parse_i64(s) ==
    LET signed == s # <<>> /\ Head(s) \in {43, 45}
        body == IF signed THEN Tail(s) ELSE s
        good == body # <<>> /\ \A i \in DOMAIN body : body[i] \in 48..57
    IN  IF ~good THEN [ok |-> FALSE, val |-> 0]
        ELSE [ok |-> TRUE,
              val |-> IF signed /\ Head(s) = 45
                      THEN -digits_value(body, 0) ELSE digits_value(body, 0)]

(* The read loop of InI: bytes up to the first space; ok is FALSE when the *)
(* input ends first (read_exact fails).                                    *)
RECURSIVE read_until_space(_, _)
read_until_space(sin, s) ==
    IF sin = <<>> THEN [ok |-> FALSE, s |-> s, rest |-> <<>>]
    ELSE IF Head(sin) = 32 THEN [ok |-> TRUE, s |-> s, rest |-> Tail(sin)]
    ELSE read_until_space(Tail(sin), Append(s, Head(sin)))

----------------------------------------------------------------------------
(* Interpreter *)

closure_sub_reversed(op, x, y) ==
    CASE op = "Add" -> x + y
      [] op = "Sub" -> y - x
      [] op = "Mul" -> x * y
      [] op = "Div" -> tdiv(x, y)
      [] op = "Mod" -> trem(x, y)
      [] op = "Gt" -> IF x > y THEN 1 ELSE 0

(* The closures step gives to binop, named by their command *)
closure(op, x, y) ==
    CASE op = "Add" -> x + y
      [] op = "Sub" -> x - y
      [] op = "Mul" -> x * y
      [] op = "Div" -> tdiv(x, y)
      [] op = "Mod" -> trem(x, y)
      [] op = "Gt" -> IF x > y THEN 1 ELSE 0

(* Interpreter::binop: pops y, then x, pushes f(x, y) *)
binop(st, op) ==
    LET py == pop(st)
        px == pop(py.stack)
    IN  push(px.stack, closure(op, px.val, py.val))

RandDirs == <<"Up", "Down", "Left", "Right">>

if_dir_inverted(x, zero, other) == IF x = 0 THEN other ELSE zero

(* The direction IfH and IfV choose on the popped value x *)
if_dir(x, zero, other) == IF x = 0 THEN zero ELSE other

swap_keeps_order(st) ==
    LET px == pop(st)
        py == pop(px.stack)
    IN  push(push(py.stack, py.val), px.val)

(* Swap: pops x, then y, pushes x, then y *)
swap(st) ==
    LET px == pop(st)
        py == pop(px.stack)
    IN  push(push(py.stack, px.val), py.val)

bri_no_skip(self) == self

(* Bri: the cell after the pc is passed over by an advance of its own *)
bri(self) == [self EXCEPT !.pc = advance_pc(self.pc, self.dir)]

grid_coord_wrapping(v, n) == [ok |-> TRUE, idx |-> v % n]

(* A coordinate popped by Get or Put: `v as usize`, the test against the   *)
(* side n of the playfield (ok is its negation), and the index v denotes   *)
(* when the test passes                                                    *)
grid_coord(v, n) ==
    [ok |-> ~usize_ge(as_usize(v), n), idx |-> usize_index(as_usize(v))]

put_coord_fail_pops_value(st) == pop(pop(pop(st).stack).stack).stack

(* The stack Put leaves when a coordinate is out of range: y and x are     *)
(* popped, the bail! comes before the pop of the value                     *)
put_coord_fail(st) == pop(pop(st).stack).stack

u8_try_from_truncating(val) == [ok |-> TRUE, val |-> val % 256]

(* u8::try_from(val) for an i64 val *)
u8_try_from(val) ==
    IF val \in Bytes THEN [ok |-> TRUE, val |-> val] ELSE [ok |-> FALSE, val |-> 0]

string_push_arg(st, cmd) == push(st, cmd.arg)

(* The string-mode push: (cmd.as_char() as u8).into() *)
string_push(st, cmd) == push(st, as_u8(as_char(cmd)))

(* Interpreter::step.  self is the record of the engine's fields, rnd the  *)
(* value rng.gen_range(0, 4) would return, sin the unread standard input.  *)
(* The result holds the engine after the call, what the call returned      *)
(* ("Cont", "Stop", "Err") or "Panic" when it unwound, the error, and the  *)
(* input left.                                                             *)
step(self, rnd, sin) ==
    LET cmd == self.playfield[self.pc.y][self.pc.x]
        st == self.stack
        Out(s, r, e, i) == [self |-> s, res |-> r, err |-> e, stdin |-> i]
        Adv(s) == [s EXCEPT !.pc = advance_pc(s.pc, s.dir)]
        Cont(s) == Out(Adv(s), "Cont", "none", sin)
        WithStack(ns) == [self EXCEPT !.stack = ns]
        Fail(ns, e) == Out(WithStack(ns), "Err", e, sin)
        Panic(ns) == Out(WithStack(ns), "Panic", "none", sin)
        p1 == pop(st)
        p2 == pop(p1.stack)
        p3 == pop(p2.stack)
        cy == grid_coord(p1.val, PLAYFIELD_ROWS)
        cx == grid_coord(p2.val, PLAYFIELD_COLS)
    IN
    IF self.stringmode THEN
        IF cmd.tag = "Str"
        THEN Cont([self EXCEPT !.stringmode = FALSE])
        ELSE Cont(WithStack(string_push(st, cmd)))
    ELSE
    CASE cmd.tag = "Add" -> Cont(WithStack(binop(st, "Add")))
      [] cmd.tag = "Sub" -> Cont(WithStack(binop(st, "Sub")))
      [] cmd.tag = "Mul" -> Cont(WithStack(binop(st, "Mul")))
      [] cmd.tag = "Div" ->
            \* x / 0 panics, after both pops
            IF p1.val = 0 THEN Panic(p2.stack)
            ELSE Cont(WithStack(binop(st, "Div")))
      [] cmd.tag = "Mod" ->
            IF p1.val = 0 THEN Panic(p2.stack)
            ELSE Cont(WithStack(binop(st, "Mod")))
      [] cmd.tag = "Not" ->
            Cont(WithStack(push(p1.stack, IF p1.val = 0 THEN 1 ELSE 0)))
      [] cmd.tag = "Gt" -> Cont(WithStack(binop(st, "Gt")))
      [] cmd.tag = "Right" -> Cont([self EXCEPT !.dir = "Right"])
      [] cmd.tag = "Left" -> Cont([self EXCEPT !.dir = "Left"])
      [] cmd.tag = "Up" -> Cont([self EXCEPT !.dir = "Up"])
      [] cmd.tag = "Down" -> Cont([self EXCEPT !.dir = "Down"])
      [] cmd.tag = "Rand" -> Cont([self EXCEPT !.dir = RandDirs[rnd + 1]])
      [] cmd.tag = "IfH" ->
            Cont([self EXCEPT !.stack = p1.stack,
                              !.dir = if_dir(p1.val, "Right", "Left")])
      [] cmd.tag = "IfV" ->
            Cont([self EXCEPT !.stack = p1.stack,
                              !.dir = if_dir(p1.val, "Down", "Up")])
      [] cmd.tag = "Str" -> Cont([self EXCEPT !.stringmode = ~self.stringmode])
      [] cmd.tag = "Dup" -> Cont(WithStack(push(st, peek(st))))
      [] cmd.tag = "Swap" -> Cont(WithStack(swap(st)))
      [] cmd.tag = "Pop" -> Cont(WithStack(p1.stack))
      [] cmd.tag = "OutI" ->
            Cont([self EXCEPT !.stack = p1.stack,
                              !.output = self.output \o fmt_int(p1.val)])
      [] cmd.tag = "OutC" ->
            Cont([self EXCEPT !.stack = p1.stack,
                              !.output = Append(self.output, as_u8(p1.val))])
      [] cmd.tag = "InI" ->
            LET rd == read_until_space(sin, <<>>)
                pr == parse_i64(rd.s)
            IN  IF ~rd.ok THEN Out(self, "Err", "io", rd.rest)
                ELSE IF ~pr.ok THEN Out(self, "Err", "parse", rd.rest)
                ELSE Out(Adv(WithStack(push(st, pr.val))), "Cont", "none", rd.rest)
      [] cmd.tag = "InC" ->
            IF sin = <<>> THEN Out(self, "Err", "io", sin)
            ELSE Out(Adv(WithStack(push(st, Head(sin)))), "Cont", "none", Tail(sin))
      [] cmd.tag = "Bri" -> Cont(bri(self))
      [] cmd.tag = "Space" -> Cont(self)
      [] cmd.tag = "Num" -> Cont(WithStack(push(st, cmd.arg)))
      [] cmd.tag = "Char" ->
            \* c.to_digit(10).unwrap(): None unless c is a decimal digit
            IF cmd.arg \in 48..57
            THEN Cont(WithStack(push(st, cmd.arg - 48)))
            ELSE Panic(st)
      [] cmd.tag = "Get" ->
            \* y is p1.val, x is p2.val
            IF ~cx.ok THEN Fail(p2.stack, "coord_x")
            ELSE IF ~cy.ok THEN Fail(p2.stack, "coord_y")
            ELSE Cont(WithStack(push(p2.stack,
                          as_u8(as_char(self.playfield[cy.idx][cx.idx])))))
      [] cmd.tag = "Put" ->
            IF ~cx.ok THEN Fail(put_coord_fail(st), "coord_x")
            ELSE IF ~cy.ok THEN Fail(put_coord_fail(st), "coord_y")
            ELSE LET val == u8_try_from(p3.val)
                 IN  IF ~val.ok THEN Fail(p3.stack, "value")
                     ELSE Cont([self EXCEPT
                                  !.stack = p3.stack,
                                  !.playfield[cy.idx][cx.idx] = from_char(val.val)])
      [] cmd.tag = "End" -> Out(self, "Stop", "none", sin)

load_byte_newline_keeps_column(cur, item) ==
    IF item = 10
    THEN [pf |-> cur.pf, x |-> cur.x, y |-> (cur.y + 1) % PLAYFIELD_ROWS]
    ELSE LET nx == (cur.x + 1) % PLAYFIELD_COLS
             ny == IF nx = 0 THEN (cur.y + 1) % PLAYFIELD_ROWS ELSE cur.y
         IN  [pf |-> [cur.pf EXCEPT ![cur.y][cur.x] = from_char(item)],
              x |-> nx, y |-> ny]

(* One pass of load's loop: the cursor cur = [pf, x, y] after the byte item *)
load_byte(cur, item) ==
    IF item = 10
    THEN [pf |-> cur.pf, x |-> 0, y |-> (cur.y + 1) % PLAYFIELD_ROWS]
    ELSE LET nx == (cur.x + 1) % PLAYFIELD_COLS
             ny == IF nx = 0 THEN (cur.y + 1) % PLAYFIELD_ROWS ELSE cur.y
         IN  [pf |-> [cur.pf EXCEPT ![cur.y][cur.x] = from_char(item)],
              x |-> nx, y |-> ny]

(* The loop of Interpreter::load over the bytes buf[lo..hi], in order; the *)
(* range is halved, and the first half is computed (the test of half.y)    *)
(* before the second is entered, so that a long stream does not nest one   *)
(* evaluation per byte                                                     *)
RECURSIVE load_loop(_, _, _, _)
load_loop(cur, buf, lo, hi) ==
    IF lo > hi THEN cur
    ELSE IF lo = hi THEN load_byte(cur, buf[lo])
    ELSE LET mid == (lo + hi) \div 2
             half == load_loop(cur, buf, lo, mid)
         IN  IF half.y >= 0 THEN load_loop(half, buf, mid + 1, hi) ELSE half

(* Interpreter::load *)
load(pf, buf) == load_loop([pf |-> pf, x |-> 0, y |-> 0], buf, 1, Len(buf)).pf

(* run's loop: where control goes after step returned res ... *)
after_step_ignores_err(res) ==
    CASE res = "Cont" -> "pred"
      [] res = "Stop" -> "ok"
      [] res = "Err" -> "pred"
      [] res = "Panic" -> "panic"

after_step_calls_pred_on_stop(res) ==
    CASE res = "Cont" -> "pred"
      [] res = "Stop" -> "pred"
      [] res = "Err" -> "err"
      [] res = "Panic" -> "panic"

after_step(res) ==
    CASE res = "Cont" -> "pred"
      [] res = "Stop" -> "ok"
      [] res = "Err" -> "err"
      [] res = "Panic" -> "panic"

(* ... and after the predicate returned b *)
after_pred(b) == IF b THEN "step" ELSE "ok"

----------------------------------------------------------------------------
(* The engine's fields as one record *)
Self == [playfield |-> playfield, pc |-> pc, dir |-> dir, stack |-> stack,
         stringmode |-> stringmode, output |-> output]

NoLast == [cmd |-> Cmd("Space"), stringmode |-> FALSE, pc |-> pc_init,
           dir |-> "Right", stack |-> <<>>, output |-> <<>>,
           res |-> "None", err |-> "none",
           cmd2 |-> Cmd("Space"), stringmode2 |-> FALSE, stack2 |-> <<>>,
           res2 |-> "None"]

NoCodec == [at |-> "off", b |-> 0, d |-> Cmd("Space"), e |-> 0, d2 |-> Cmd("Space")]

EmptyField == [y \in 0..(PLAYFIELD_ROWS - 1) |->
                  [x \in 0..(PLAYFIELD_COLS - 1) |-> Cmd("Space")]]

(* Interpreter::new, with the standard input the process was started on *)
InitWith(inputs, codecs) ==
    /\ playfield = EmptyField
    /\ pc = pc_init
    /\ dir = "Right"
    /\ stack = <<>>
    /\ stringmode = FALSE
    /\ output = <<>>
    /\ stdin \in inputs
    /\ phase = "new"
    /\ iter_n = 0
    /\ run_err = "none"
    /\ prog = <<>>
    /\ loads = 0
    /\ run_no = 0
    /\ nsteps = 0
    /\ calls = <<>>
    /\ preds = <<>>
    /\ last = NoLast
    /\ impure = FALSE
    /\ ref = <<>>
    /\ written = <<>>
    /\ codec \in codecs

(* The driver loads a program into the new engine *)
LoadFrom(programs) ==
    /\ phase = "new"
    /\ \E src \in programs :
          /\ playfield' = load(playfield, src)
          /\ prog' = src
    /\ loads' = loads + 1
    /\ phase' = "idle"
    /\ UNCHANGED <<pc, dir, stack, stringmode, output, stdin, iter_n, run_err,
                   run_no, nsteps, calls, preds, last, impure, ref, written, codec>>

(* A further load into the same engine, before any run *)
LoadOver(programs) ==
    /\ phase = "idle"
    /\ run_no = 0
    /\ loads < MaxLoads
    /\ \E src \in programs :
          /\ playfield' = load(playfield, src)
          /\ prog' = src
    /\ loads' = loads + 1
    /\ UNCHANGED <<pc, dir, stack, stringmode, output, stdin, phase, iter_n,
                   run_err, run_no, nsteps, calls, preds, last, impure, ref,
                   written, codec>>

(* run, up to its loop: the three resets and iter_n = 0 *)
RunEnter ==
    /\ phase \in {"idle", "ok", "err"}
    /\ run_no < MaxRuns
    /\ pc' = pc_init
    /\ stack' = <<>>
    /\ output' = <<>>
    /\ iter_n' = 0
    /\ phase' = "step"
    /\ run_err' = "none"
    /\ run_no' = run_no + 1
    /\ nsteps' = 0
    /\ calls' = <<>>
    /\ preds' = <<>>
    /\ last' = NoLast
    /\ UNCHANGED <<playfield, dir, stringmode, stdin, prog, loads, impure, ref,
                   written, codec>>

(* What rng.gen_range(0, 4) can return; the rng is drawn from only by a  *)
(* Rand cell outside string mode                                         *)
RngDraws ==
    IF ~stringmode /\ playfield[pc.y][pc.x].tag = "Rand" THEN 0..3 ELSE {0}

(* run's loop condition: one call of step and the test of its result *)
RunStep ==
    /\ phase = "step"
    /\ nsteps < MaxSteps
    /\ \E rnd \in RngDraws :
          LET r == step(Self, rnd, stdin)
              cmd == playfield[pc.y][pc.x]
              py == pop(stack)
              px == pop(py.stack)
              pv == pop(px.stack)
              cell == <<px.val, py.val>>
              put == ~stringmode /\ cmd.tag = "Put" /\ r.res = "Cont"
          IN  /\ playfield' = r.self.playfield
              /\ pc' = r.self.pc
              /\ dir' = r.self.dir
              /\ stack' = r.self.stack
              /\ stringmode' = r.self.stringmode
              /\ output' = r.self.output
              /\ stdin' = r.stdin
              /\ phase' = after_step(r.res)
              /\ run_err' = r.err
              /\ nsteps' = nsteps + 1
              /\ last' = [cmd |-> cmd, stringmode |-> stringmode, pc |-> pc,
                          dir |-> dir, stack |-> stack, output |-> output,
                          res |-> r.res, err |-> r.err,
                          cmd2 |-> last.cmd, stringmode2 |-> last.stringmode,
                          stack2 |-> last.stack, res2 |-> last.res]
              /\ impure' = (impure \/ (~stringmode /\
                                cmd.tag \in {"Put", "Rand", "InI", "InC"}))
              /\ ref' = IF run_no = 1
                        THEN Append(ref, <<r.self.pc, r.self.stack, r.self.output, r.res>>)
                        ELSE ref
              /\ written' = IF put
                            THEN [c \in DOMAIN written \cup {cell} |->
                                     IF c = cell THEN pv.val ELSE written[c]]
                            ELSE written
    /\ UNCHANGED <<iter_n, prog, loads, run_no, calls, preds, codec>>

(* run's loop body: iter_n += 1, then the predicate, which answers b *)
RunPredWith(answers) ==
    /\ phase = "pred"
    /\ \E b \in answers :
          /\ iter_n' = iter_n + 1
          /\ calls' = Append(calls, iter_n + 1)
          /\ preds' = Append(preds, b)
          /\ phase' = after_pred(b)
    /\ UNCHANGED <<playfield, pc, dir, stack, stringmode, output, stdin, run_err,
                   prog, loads, run_no, nsteps, last, impure, ref, written,
                   codec>>

----------------------------------------------------------------------------
(* The programs and inputs the model runs *)

P_mul == <<57, 52, 42, 46, 64>>                       \* 94*.@
P_turn == <<49, 118, 10, 32, 64>>                     \* 1v / (newline) _@
P_str == <<34, 64, 62, 43, 34, 64>>                   \* "@>+"@
P_open == <<34, 65, 64>>                              \* "A@
P_getneg == <<48, 57, 45, 48, 103, 64>>               \* 09-0g@
P_gety == <<48, 55, 55, 42, 103, 64>>                 \* 077*g@
P_putbig == <<57, 57, 42, 57, 42, 48, 48, 112, 64>>   \* 99*9*00p@
P_putget == <<55, 48, 48, 112, 48, 48, 103, 46, 64>>  \* 700p00g.@
P_ini == <<38, 46, 64>>                               \* &.@
P_inc == <<126, 44, 64>>                              \* ~,@
P_bri == <<35, 64, 49, 46, 64>>                       \* #@1.@
P_rand == <<63, 64>>                                  \* ?@
P_char == <<97, 64>>                                  \* a@
P_outbig == <<57, 57, 42, 57, 42, 44, 64>>            \* 99*9*,@
P_outneg == <<48, 57, 45, 46, 64>>                    \* 09-.@
P_strout == <<34, 46, 44, 34, 46, 44, 64>>            \* ".,".,@
P_putx == <<53, 48, 57, 45, 48, 112, 64>>             \* 509-0p@
P_puty == <<53, 48, 55, 55, 42, 112, 64>>             \* 5077*p@
P_strput == <<34, 112, 34, 64>>                       \* "p"@
P_bristr == <<35, 34, 49, 46, 64>>                    \* #"1.@
P_bridown == <<35, 118, 49, 46, 64>>                  \* #v1.@
P_briwrap == <<35, 35, 60>>                           \* ##<

(* + - * / % ` \ take two values; ! _ | : $ . , take one *)
BinaryGlyphs == {43, 45, 42, 47, 37, 96, 92}
UnaryGlyphs == {33, 95, 124, 58, 36, 46, 44}

(* Each consuming command on an empty stack, on one value 5, and (the      *)
(* binary ones) on the values 7 and 5                                      *)
UnderflowPrograms ==
    {<<g, 64>> : g \in BinaryGlyphs \cup UnaryGlyphs}
    \cup {<<53, g, 64>> : g \in BinaryGlyphs \cup UnaryGlyphs}
    \cup {<<55, 53, g, 64>> : g \in BinaryGlyphs}

(* Each direction command, then @ *)
DirPrograms == {<<g, 64>> : g \in {62, 60, 94, 118}}

Programs ==
    {P_mul, P_turn, P_str, P_open, P_getneg, P_gety, P_putbig, P_putget,
     P_ini, P_inc, P_bri, P_rand, P_char, P_outbig, P_outneg,
     P_strout, P_putx, P_puty, P_strput, P_bristr, P_bridown, P_briwrap}
    \cup UnderflowPrograms
    \cup DirPrograms

(* Nothing to read; "7 "; "x " *)
Stdins == {<<>>, <<55, 32>>, <<120, 32>>}

Init == InitWith(Stdins, {NoCodec})

Load == LoadFrom(Programs)

(* A driver whose predicate may stop the run at any step *)
RunPred == RunPredWith(BOOLEAN)

Next == Load \/ RunEnter \/ RunStep \/ RunPred

Spec == Init /\ [][Next]_vars

----------------------------------------------------------------------------
(* Put and Get on chosen operands: the program &&&p&&g@ reads v, x, y for  *)
(* the Put and gx, gy for the Get from the standard input.  The driver is  *)
(* bin/bef.rs: one load, one run, a predicate that always returns true.    *)

P_pg == <<38, 38, 38, 112, 38, 38, 103, 64>>

PGCase(v, x, y, gx, gy) == [v |-> v, x |-> x, y |-> y, gx |-> gx, gy |-> gy]

XOut == {-2147483647, -65536, -65456, -80, -1, 80, 81, 160, 65536, 65541,
         2147483647}
YOut == {-2147483647, -65536, -65511, -25, -1, 25, 26, 50, 65536, 65539,
         2147483647}

PGCases ==
    \* every byte, written to and read from two corners
    {PGCase(v, c[1], c[2], c[1], c[2]) : v \in Bytes, c \in {<<0, 0>>, <<79, 24>>}}
    \* every column, three rows
    \cup {PGCase(v, x, y, x, y) : v \in {0, 65, 255}, x \in 0..79, y \in {0, 12, 24}}
    \* every row, two more columns
    \cup {PGCase(v, x, y, x, y) : v \in {65}, x \in {40, 79}, y \in 0..24}
    \* a Put outside the playfield
    \cup {PGCase(65, x, y, 0, 0) : x \in XOut, y \in {0, 24} \cup YOut}
    \cup {PGCase(65, x, y, 0, 0) : x \in {0, 79}, y \in YOut}
    \* a Get outside the playfield
    \cup {PGCase(65, 1, 1, x, y) : x \in XOut, y \in {0, 24} \cup YOut}
    \cup {PGCase(65, 1, 1, x, y) : x \in {0, 79}, y \in YOut}
    \* a Put of a value that is no byte
    \cup {PGCase(v, 1, 1, 1, 1) : v \in {-2147483647, -256, -1, 256, 321}}

(* The five numbers as typed: decimal, each followed by a space *)
PGInput(c) ==
    fmt_int(c.v) \o fmt_int(c.x) \o fmt_int(c.y) \o fmt_int(c.gx) \o fmt_int(c.gy)

InitPG == InitWith({PGInput(c) : c \in PGCases}, {NoCodec})

LoadPG == LoadFrom({P_pg})

RunOnce == run_no = 0 /\ RunEnter

RunPredTrue == RunPredWith({TRUE})

NextPG == LoadPG \/ RunOnce \/ RunStep \/ RunPredTrue

SpecPG == InitPG /\ [][NextPG]_vars

----------------------------------------------------------------------------
(* Stack commands on chosen stacks: k times & (k = 0..3) reads the stack   *)
(* from the standard input, then comes one of \\  :$  + - * / % `  and @.  *)
(* The driver is bin/bef.rs.                                               *)

OpVals == {-7, 0, 2, 5}

OpBodies ==
    {<<92, 92, 64>>, <<58, 36, 64>>}
    \cup {<<g, 64>> : g \in {43, 45, 42, 47, 37, 96}}

Amps(k) == [i \in 1..k |-> 38]

OpPrograms == {Amps(k) \o b : k \in 0..3, b \in OpBodies}

OpInputs == {fmt_int(a) \o fmt_int(b) \o fmt_int(c) : a \in OpVals, b \in OpVals, c \in OpVals}

InitOps == InitWith(OpInputs, {NoCodec})

LoadOps == LoadFrom(OpPrograms)

NextOps == LoadOps \/ RunOnce \/ RunStep \/ RunPredTrue

SpecOps == InitOps /\ [][NextOps]_vars

----------------------------------------------------------------------------
(* Loading: a user of the library loads one byte stream into a new engine  *)
(* and then further ones over it                                           *)

Rep(b, n) == [i \in 1..n |-> b]

L_row == Rep(65, 80) \o <<66>>                 \* a line of 81 cells
L_rownl == Rep(65, 80) \o <<10, 66>>           \* a full line, newline, B
L_lines == <<65>> \o Rep(10, 25) \o <<66>>     \* A, 25 newlines, B
L_full == Rep(65, 2000) \o <<66, 67, 68>>      \* 80 x 25 cells and three more

ShortStreams ==
    {<<>>} \cup {<<a>> : a \in {65, 10, 52}}
    \cup {<<a, b>> : a \in {65, 10, 52}, b \in {65, 10, 52}}
    \cup {<<65, 10, 66>>, <<10, 10, 52>>}

LineStreams == {L_row, L_rownl, L_lines}

InitLoad == InitWith({<<>>}, {NoCodec})

LoadFirst == LoadFrom(ShortStreams \cup LineStreams \cup {L_full})

LoadAgain == LoadOver(ShortStreams \cup LineStreams)

NextLoad == LoadFirst \/ LoadAgain

SpecLoad == InitLoad /\ [][NextLoad]_vars

----------------------------------------------------------------------------
(* advance_pc from every position in every direction *)

InitPc ==
    /\ playfield = EmptyField
    /\ pc \in [x : 0..(PLAYFIELD_COLS - 1), y : 0..(PLAYFIELD_ROWS - 1)]
    /\ dir \in Directions
    /\ stack = <<>>
    /\ stringmode = FALSE
    /\ output = <<>>
    /\ stdin = <<>>
    /\ phase = "pc"
    /\ iter_n = 0
    /\ run_err = "none"
    /\ prog = <<>>
    /\ loads = 0
    /\ run_no = 0
    /\ nsteps = 0
    /\ calls = <<>>
    /\ preds = <<>>
    /\ last = NoLast
    /\ impure = FALSE
    /\ ref = <<>>
    /\ written = <<>>
    /\ codec = NoCodec

PcAdvance ==
    /\ phase = "pc"
    /\ pc' = advance_pc(pc, dir)
    /\ last' = [NoLast EXCEPT !.pc = pc, !.dir = dir, !.res = "Moved"]
    /\ UNCHANGED <<playfield, dir, stack, stringmode, output, stdin, phase,
                   iter_n, run_err, prog, loads, run_no, nsteps, calls, preds, impure,
                   ref, written, codec>>

NextPc == PcAdvance

SpecPc == InitPc /\ [][NextPc]_vars

----------------------------------------------------------------------------
(* The codec on every byte: decode, encode, decode again *)

InitCodec ==
    InitWith({<<>>}, {[NoCodec EXCEPT !.at = "byte", !.b = b] : b \in Bytes})

CodecStep ==
    /\ \/ /\ codec.at = "byte"
          /\ codec' = [codec EXCEPT !.at = "decoded", !.d = from_char(codec.b)]
       \/ /\ codec.at = "decoded"
          /\ codec' = [codec EXCEPT !.at = "encoded", !.e = as_char(codec.d)]
       \/ /\ codec.at = "encoded"
          /\ codec' = [codec EXCEPT !.at = "done", !.d2 = from_char(codec.e)]
    /\ UNCHANGED <<playfield, pc, dir, stack, stringmode, output, stdin, phase,
                   iter_n, run_err, prog, loads, run_no, nsteps, calls, preds, last,
                   impure, ref, written>>

NextCodec == CodecStep

SpecCodec == InitCodec /\ [][NextCodec]_vars

----------------------------------------------------------------------------
(* Properties *)

InRun == phase \in {"step", "pred", "ok", "err", "panic"}

Stepped == InRun /\ last.res \in {"Cont", "Stop", "Err", "Panic"}

AllTrue(s) == \A i \in DOMAIN s : s[i]

(* What 94*.@ must have done after each of its five steps: the command     *)
(* executed, the column reached, the stack and the output                  *)
MulTrace ==
    << [cmd |-> Num(9), x |-> 1, stack |-> <<9>>, output |-> <<>>],
       [cmd |-> Num(4), x |-> 2, stack |-> <<9, 4>>, output |-> <<>>],
       [cmd |-> Cmd("Mul"), x |-> 3, stack |-> <<36>>, output |-> <<>>],
       [cmd |-> Cmd("OutI"), x |-> 4, stack |-> <<>>, output |-> <<51, 54, 32>>],
       [cmd |-> Cmd("End"), x |-> 4, stack |-> <<>>, output |-> <<51, 54, 32>>] >>

(* C1: on a fresh engine loaded with 94*.@ (direction Right), run pushes   *)
(* 9, pushes 4, multiplies, prints, and its fifth step halts at the End    *)
(* cell; when the predicate always continued, run has returned with the    *)
(* output exactly "36 ".                                                   *)
C1_MulProgram ==
    (prog = P_mul /\ run_no = 1 /\ InRun) =>
        /\ nsteps <= 5
        /\ nsteps = 0 => (stack = <<>> /\ output = <<>> /\ pc = pc_init)
        /\ nsteps >= 1 =>
              /\ last.cmd = MulTrace[nsteps].cmd
              /\ pc = [x |-> MulTrace[nsteps].x, y |-> 0]
              /\ stack = MulTrace[nsteps].stack
              /\ output = MulTrace[nsteps].output
              /\ last.res = IF nsteps = 5 THEN "Stop" ELSE "Cont"
        /\ nsteps = 5 => (phase = "ok" /\ playfield[pc.y][pc.x] = Cmd("End"))
        /\ (phase = "ok" /\ AllTrue(preds)) =>
              (nsteps = 5 /\ output = <<51, 54, 32>> /\ dir = "Right")

C1_Witness ==
    /\ prog = P_mul /\ run_no = 1 /\ phase = "ok"
    /\ last.res = "Stop" /\ Len(calls) = 4

(* C2: a second run of a program that executed no Put, Rand or input       *)
(* command, after a first run that ended at End or by the predicate, goes  *)
(* through the same program-counter positions, stacks and outputs as the   *)
(* run of the freshly loaded engine did.                                   *)
C2_RerunAsFresh ==
    (/\ run_no = 2 /\ InRun /\ ~impure
     /\ ref # <<>> /\ ref[Len(ref)][4] \in {"Cont", "Stop"}
     /\ nsteps >= 1 /\ nsteps <= Len(ref)) =>
        <<pc, stack, output>> = <<ref[nsteps][1], ref[nsteps][2], ref[nsteps][3]>>

(* C3: the predicate is called once after each step that returned Cont,    *)
(* with the counts 1, 2, 3, ...; never after the End step or a failing     *)
(* step; run returns Ok exactly when a step returned Stop or the predicate *)
(* returned false, and no step follows either.                             *)
C3_PredicateProtocol ==
    InRun =>
        /\ calls = [i \in 1..Len(calls) |-> i]
        /\ Len(preds) = Len(calls)
        /\ iter_n = Len(calls)
        /\ \A i \in 1..(Len(preds) - 1) : preds[i]
        /\ phase = "step" => (nsteps = Len(calls) /\ AllTrue(preds)
                               /\ last.res \in {"None", "Cont"})
        /\ phase = "pred" => (nsteps = Len(calls) + 1 /\ AllTrue(preds)
                               /\ last.res = "Cont")
        /\ phase = "ok" <=>
              \/ last.res = "Stop"
              \/ (preds # <<>> /\ ~preds[Len(preds)])
        /\ last.res = "Stop" => (nsteps = Len(calls) + 1 /\ AllTrue(preds))
        /\ (preds # <<>> /\ ~preds[Len(preds)]) =>
              (nsteps = Len(calls) /\ last.res = "Cont")
        /\ last.res \in {"Err", "Panic"} =>
              (nsteps = Len(calls) + 1 /\ AllTrue(preds))

C3_Witness ==
    /\ phase = "ok" /\ last.res = "Cont"
    /\ calls = <<1, 2, 3>> /\ preds = <<TRUE, TRUE, FALSE>> /\ nsteps = 3

(* C4: a step that fails (a Get or Put coordinate out of range, a Put      *)
(* value that is no byte, an input read or parse failure) ends the run:    *)
(* run returns that failure, the failing step is the last one, the         *)
(* predicate is not called for it, and the program counter is still on the *)
(* cell whose step failed.                                                 *)
C4_FailureAborts ==
    /\ (InRun /\ last.res = "Err") =>
          /\ phase = "err"
          /\ run_err = last.err
          /\ run_err \in {"coord_x", "coord_y", "value", "io", "parse"}
          /\ pc = last.pc
          /\ playfield[pc.y][pc.x] = last.cmd
          /\ last.cmd.tag \in {"Get", "Put", "InI", "InC"}
          /\ nsteps = Len(calls) + 1
          /\ iter_n = Len(calls)
          /\ AllTrue(preds)
    /\ phase = "err" => last.res = "Err"

C4_Witness ==
    /\ phase = "err" /\ run_err = "value" /\ last.cmd = Cmd("Put")
    /\ pc = [x |-> 7, y |-> 0] /\ Len(calls) = 7

(* The operands of the last step, had it been a Get or a Put: y was on    *)
(* top, x under it, the value to put under that                            *)
OpY == pop(last.stack).val
OpX == pop(pop(last.stack).stack).val
OpV == pop(pop(pop(last.stack).stack).stack).val
OpCell == <<OpX, OpY>>
BelowXY == pop(pop(last.stack).stack).stack

NormalStep(tags) == Stepped /\ ~last.stringmode /\ last.cmd.tag \in tags

(* The playfield the loaded program and the successful Puts account for *)
Overlay ==
    LET base == load(EmptyField, prog)
    IN  [y \in 0..24 |-> [x \in 0..79 |->
            IF <<x, y>> \in DOMAIN written
            THEN from_char(written[<<x, y>>])
            ELSE base[y][x]]]

(* C5: a Put of a byte v at an in-bounds (x, y) succeeds, and a later Get  *)
(* on a cell whose last Put stored v pushes exactly v.                     *)
C5_PutGetRoundTrip ==
    /\ (NormalStep({"Put"}) /\ OpX \in 0..79 /\ OpY \in 0..24 /\ OpV \in 0..255) =>
          /\ last.res = "Cont"
          /\ OpCell \in DOMAIN written
          /\ written[OpCell] = OpV
    /\ (NormalStep({"Get"}) /\ OpCell \in DOMAIN written) =>
          /\ last.res = "Cont"
          /\ stack = Append(BelowXY, written[OpCell])

C5_Witness ==
    /\ NormalStep({"Get"}) /\ last.res = "Cont"
    /\ OpCell = <<79, 24>> /\ written = (<<79, 24>> :> 200)
    /\ stack = <<200>>

(* C6: a Get or Put whose x is outside 0..79 or whose y is outside 0..24,  *)
(* negative values included, fails with the error of the offending axis    *)
(* (x first); it pushes no cell's value and the playfield is what it was.  *)
C6_OutOfRangeFails ==
    (NormalStep({"Get", "Put"}) /\ (OpX \notin 0..79 \/ OpY \notin 0..24)) =>
        /\ last.res = "Err"
        /\ phase = "err"
        /\ run_err = IF OpX \notin 0..79 THEN "coord_x" ELSE "coord_y"
        /\ stack = BelowXY
        /\ playfield = Overlay
        /\ \A c \in DOMAIN written : c[1] \in 0..79 /\ c[2] \in 0..24

C6_Witness ==
    /\ NormalStep({"Put"}) /\ OpX = -1 /\ OpY = 24 /\ OpV = 65
    /\ phase = "err" /\ run_err = "coord_x"

(* The byte the cell of the last step holds according to the source text   *)
(* of a one-line program, or to the last Put to it                         *)
CellByte ==
    IF <<last.pc.x, last.pc.y>> \in DOMAIN written
    THEN written[<<last.pc.x, last.pc.y>>]
    ELSE IF \E i \in DOMAIN prog : prog[i] = 10
    THEN as_u8(as_char(last.cmd))
    ELSE IF last.pc.y = 0 /\ last.pc.x < Len(prog) THEN prog[last.pc.x + 1]
    ELSE 32

(* C7: in string mode a step on a Str cell only leaves string mode, and a  *)
(* step on any other cell (operators, directions and End included) only    *)
(* pushes the cell's byte; either way the step returns Cont, direction,    *)
(* playfield and output are unchanged, and the program counter has moved   *)
(* one cell.                                                               *)
C7_StringMode ==
    (Stepped /\ last.stringmode) =>
        /\ last.res = "Cont"
        /\ phase \in {"pred", "step", "ok"}
        /\ pc = advance_pc(last.pc, last.dir)
        /\ dir = last.dir
        /\ output = last.output
        /\ playfield = Overlay
        /\ IF last.cmd.tag = "Str"
           THEN ~stringmode /\ stack = last.stack
           ELSE /\ stringmode
                /\ CellByte \in 0..255
                /\ stack = Append(last.stack, CellByte)

C7_Witness ==
    /\ Stepped /\ last.stringmode /\ last.cmd = Cmd("End")
    /\ stack = <<64>> /\ stringmode /\ phase = "pred"

(* How many values each stack-consuming command reads *)
Arity(tag) == IF tag \in {"Add", "Sub", "Mul", "Div", "Mod", "Gt", "Swap"} THEN 2 ELSE 1

Consumers == {"Add", "Sub", "Mul", "Div", "Mod", "Gt", "Swap",
              "Not", "IfH", "IfV", "Dup", "Pop", "OutI", "OutC"}

Pad(st, k) ==
    IF Len(st) >= k THEN st ELSE [i \in 1..(k - Len(st)) |-> 0] \o st

RECURSIVE StripZeros(_)
StripZeros(st) ==
    IF st # <<>> /\ Head(st) = 0 THEN StripZeros(Tail(st)) ELSE st

(* What each command leaves when run on the empty stack with no output *)
OnEmpty(tag) ==
    CASE tag \in {"Add", "Sub", "Mul", "Gt", "Dup"} ->
            stack = <<0>> /\ output = <<>> /\ dir = last.dir
      [] tag = "Not" -> stack = <<1>> /\ output = <<>> /\ dir = last.dir
      [] tag = "Swap" -> stack = <<0, 0>> /\ output = <<>> /\ dir = last.dir
      [] tag = "Pop" -> stack = <<>> /\ output = <<>> /\ dir = last.dir
      [] tag = "IfH" -> stack = <<>> /\ output = <<>> /\ dir = "Right"
      [] tag = "IfV" -> stack = <<>> /\ output = <<>> /\ dir = "Down"
      [] tag = "OutI" -> stack = <<>> /\ output = <<48, 32>> /\ dir = last.dir
      [] tag = "OutC" -> stack = <<>> /\ output = <<0>> /\ dir = last.dir
      [] OTHER -> TRUE

(* C8: a stack-consuming command run on fewer values than it reads never   *)
(* fails and does what it does on the same stack with zeros put under it   *)
(* (the stacks compared up to zeros at the bottom, which is where a Dup    *)
(* leaves the zero it read); the only way out other than Cont is the       *)
(* division by a zero divisor.                                             *)
C8_UnderflowAsZero ==
    (NormalStep(Consumers) /\ Len(last.stack) < Arity(last.cmd.tag)) =>
        LET tag == last.cmd.tag
            padded == [playfield |-> playfield, pc |-> last.pc, dir |-> last.dir,
                       stack |-> Pad(last.stack, Arity(tag)),
                       stringmode |-> FALSE, output |-> last.output]
            r == step(padded, 0, stdin)
        IN  /\ last.res = IF tag \in {"Div", "Mod"} /\ peek(last.stack) = 0
                          THEN "Panic" ELSE "Cont"
            /\ r.res = last.res
            /\ last.res = "Cont" =>
                  /\ r.self.pc = pc
                  /\ r.self.dir = dir
                  /\ r.self.output = output
                  /\ StripZeros(r.self.stack) = StripZeros(stack)
                  /\ tag # "Dup" => r.self.stack = stack
                  /\ (last.stack = <<>> /\ last.output = <<>>) => OnEmpty(tag)

C8_Witness ==
    /\ NormalStep({"Swap"}) /\ last.stack = <<5>> /\ last.res = "Cont"
    /\ stack = <<5, 0>>

(* C9: advance_pc keeps the position in the playfield and moves it one     *)
(* cell on one axis, wrapping on that axis: Right from column 79 to column *)
(* 0, Left from column 0 to column 79, Down from row 24 to row 0, Up from  *)
(* row 0 to row 24, the other coordinate unchanged.                        *)
C9_ToroidalMove ==
    (last.res = "Moved") =>
        LET p == last.pc
        IN  /\ pc.x \in 0..79 /\ pc.y \in 0..24
            /\ dir = last.dir
            /\ dir = "Right" =>
                  (pc.y = p.y /\ pc.x = IF p.x = 79 THEN 0 ELSE p.x + 1)
            /\ dir = "Left" =>
                  (pc.y = p.y /\ pc.x = IF p.x = 0 THEN 79 ELSE p.x - 1)
            /\ dir = "Down" =>
                  (pc.x = p.x /\ pc.y = IF p.y = 24 THEN 0 ELSE p.y + 1)
            /\ dir = "Up" =>
                  (pc.x = p.x /\ pc.y = IF p.y = 0 THEN 24 ELSE p.y - 1)

C9_Witness ==
    /\ last.res = "Moved" /\ last.dir = "Right"
    /\ last.pc = [x |-> 79, y |-> 7] /\ pc = [x |-> 0, y |-> 7]

(* C10: for every byte b, decode is total (a digit gives Num of its value, *)
(* the glyph of a named command gives that command, the space gives Space, *)
(* every other byte gives Char of it), encode(decode(b)) = b and           *)
(* decode(encode(decode(b))) = decode(b).                                  *)
C10_CodecRoundTrip ==
    /\ codec.at \in {"decoded", "encoded", "done"} =>
          LET b == codec.b
              d == codec.d
              glyphs == {as_char(Cmd(t)) : t \in NamedOps}
          IN  /\ d.tag \in NamedOps \cup {"Space", "Num", "Char"}
              /\ b \in 48..57 <=> d.tag = "Num"
              /\ d.tag = "Num" => d.arg = b - 48
              /\ b = 32 <=> d = Cmd("Space")
              /\ \A t \in NamedOps : (d = Cmd(t)) <=> (b = as_char(Cmd(t)))
              /\ d.tag = "Char" <=> b \notin (48..57) \cup {32} \cup glyphs
              /\ d.tag = "Char" => d.arg = b
              /\ Cardinality(glyphs) = 26
    /\ codec.at \in {"encoded", "done"} => codec.e = codec.b
    /\ codec.at = "done" => codec.d2 = codec.d

C10_Witness ==
    /\ codec.at = "done" /\ codec.b = 96 /\ codec.d = Cmd("Gt")
    /\ codec.e = 96 /\ codec.d2 = Cmd("Gt")

----------------------------------------------------------------------------
(* Two steps in a row, both in normal mode and both completed: the first   *)
(* on a cell of tag t2, the second on a cell of tag t1                     *)
TwoSteps(t2, t1) ==
    /\ Stepped
    /\ ~last.stringmode /\ last.cmd.tag = t1 /\ last.res = "Cont"
    /\ ~last.stringmode2 /\ last.cmd2.tag = t2 /\ last.res2 = "Cont"

(* The stack st with its top two exchanged, a missing value read as 0 *)
Exchanged(st) ==
    LET s == Pad(st, 2)
        n == Len(s)
    IN  SubSeq(s, 1, n - 2) \o <<s[n], s[n - 1]>>

(* C11: a Swap step exchanges the top two values of the stack, a missing   *)
(* one reading as 0, and leaves the values beneath them alone; two Swap    *)
(* steps in a row leave the stack as it was before the first, up to the    *)
(* zeros that stood in for missing values                                  *)
C11_SwapSelfInverse ==
    /\ (NormalStep({"Swap"}) /\ last.res = "Cont") => stack = Exchanged(last.stack)
    /\ TwoSteps("Swap", "Swap") => stack = Pad(last.stack2, 2)

C11_Witness ==
    /\ TwoSteps("Swap", "Swap")
    /\ Len(last.stack2) = 3
    /\ last.stack2[2] # last.stack2[3]
    /\ stack = last.stack2

(* C12: a Dup step pushes a copy of the top of the stack, 0 when the stack *)
(* is empty; a Dup step followed by a Pop step leaves the stack exactly as *)
(* it was before the Dup                                                   *)
C12_DupThenPop ==
    /\ (NormalStep({"Dup"}) /\ last.res = "Cont") =>
           stack = last.stack \o
                   <<IF last.stack = <<>> THEN 0 ELSE last.stack[Len(last.stack)]>>
    /\ TwoSteps("Dup", "Pop") => stack = last.stack2

C12_Witness ==
    /\ TwoSteps("Dup", "Pop")
    /\ last.stack2 = <<>>
    /\ last.stack = <<0>>
    /\ stack = <<>>

----------------------------------------------------------------------------
(* Where load's cursor stands before the i-th byte of buf (i = Len(buf)+1: *)
(* after the last): the column is the number of cells written since the    *)
(* last newline, modulo 80; the row is the number of newlines and of cells *)
(* written in column 79 so far, modulo 25                                  *)
Cursors(buf) ==
    LET n == Len(buf)
        nl == {j \in 1..n : buf[j] = 10}
        \* the index of the last newline before i, 0 when there is none
        start == [i \in 1..(n + 1) |->
                     LET before == {j \in nl : j < i}
                     IN  IF before = {} THEN 0
                         ELSE CHOOSE j \in before : \A k \in before : k <= j]
        inLine == [i \in 1..(n + 1) |-> i - start[i] - 1]
        rowEnds == {j \in 1..n : j \in nl \/ inLine[j] % 80 = 79}
    IN  [i \in 1..(n + 1) |->
            [x |-> inLine[i] % 80,
             y |-> Cardinality({j \in rowEnds : j < i}) % 25]]

(* The playfield pf after a load of buf: a cell holds the decoding of the  *)
(* last byte, other than a newline, that the cursor stood on it for, and   *)
(* what it held in pf when there is no such byte                           *)
Placed(pf, buf) ==
    LET cur == Cursors(buf)
        writes == {i \in DOMAIN buf : buf[i] # 10}
        visited == {<<cur[i].x, cur[i].y>> : i \in writes}
    IN  [y \in 0..24 |-> [x \in 0..79 |->
            IF <<x, y>> \notin visited THEN pf[y][x]
            ELSE LET hits == {i \in writes : cur[i].x = x /\ cur[i].y = y}
                 IN  from_char(buf[CHOOSE i \in hits : \A k \in hits : k <= i])]]

(* C13: every load, of every byte stream, ends without an error, leaves    *)
(* its cursor inside the grid where the rule of newline and wrap puts it,  *)
(* and leaves the playfield as that rule says: each byte but a newline is  *)
(* decoded and written where the cursor stands, later bytes overwrite      *)
(* earlier ones, and cells the cursor never stood on keep their content    *)
C13_LoadCursor ==
    [][loads' = loads + 1 =>
          LET end == load_loop([pf |-> playfield, x |-> 0, y |-> 0],
                               prog', 1, Len(prog'))
              cur == Cursors(prog')[Len(prog') + 1]
          IN  /\ phase' = "idle"
              /\ end.x = cur.x /\ end.y = cur.y
              /\ end.x \in 0..(PLAYFIELD_COLS - 1)
              /\ end.y \in 0..(PLAYFIELD_ROWS - 1)
              /\ playfield' = Placed(playfield, prog')]_vars

C13_Witness ==
    /\ loads = 1
    /\ prog = L_full
    /\ playfield[0][0] = Char(66)
    /\ playfield[0][2] = Char(68)
    /\ playfield[0][3] = Char(65)
    /\ playfield[24][79] = Char(65)

----------------------------------------------------------------------------
(* s is the decimal text of x: an optional minus sign and the digits of    *)
(* |x| without leading zeros                                               *)
IsDecimalOf(s, x) ==
    LET body == IF x < 0 THEN Tail(s) ELSE s
    IN  /\ s # <<>>
        /\ (x < 0) = (s[1] = 45)
        /\ body # <<>>
        /\ \A i \in DOMAIN body : body[i] \in 48..57
        /\ (Len(body) > 1 => body[1] # 48)
        /\ parse_i64(s).ok /\ parse_i64(s).val = x

(* What a step appended to the output *)
Appended == SubSeq(output, Len(last.output) + 1, Len(output))

(* C14: after every step of a run the output before the step is a prefix  *)
(* of the output; only an OutI or OutC step in normal mode changes it;     *)
(* OutI pops x and appends the decimal text of x and one space; OutC pops  *)
(* x and appends one character, the one of code x as u8                    *)
C14_OutputAppendOnly ==
    Stepped =>
        /\ Len(output) >= Len(last.output)
        /\ SubSeq(output, 1, Len(last.output)) = last.output
        /\ (output # last.output => NormalStep({"OutI", "OutC"}))
        /\ NormalStep({"OutI"}) =>
               /\ last.res = "Cont"
               /\ stack = pop(last.stack).stack
               /\ Len(Appended) >= 2
               /\ Appended[Len(Appended)] = 32
               /\ IsDecimalOf(SubSeq(Appended, 1, Len(Appended) - 1), OpY)
        /\ NormalStep({"OutC"}) =>
               /\ last.res = "Cont"
               /\ stack = pop(last.stack).stack
               /\ Len(Appended) = 1
               /\ Appended[1] \in Bytes
               /\ (Appended[1] - OpY) % 256 = 0

C14_Witness ==
    /\ NormalStep({"OutC"})
    /\ last.stack = <<729>>
    /\ last.output = <<>>
    /\ output = <<217>>
    /\ stack = <<>>

----------------------------------------------------------------------------
BinaryTags == {"Add", "Sub", "Mul", "Div", "Mod", "Gt"}

(* q is the quotient of x by y that truncates toward zero: the remainder   *)
(* is smaller than y in magnitude and, unless zero, has the sign of x      *)
TruncQuot(x, y, q) ==
    LET r == x - q * y
    IN  /\ abs(r) < abs(y)
        /\ (r = 0 \/ (r < 0) = (x < 0))

(* C15: a binary command that completes pops y, then x (a missing value    *)
(* reading as 0), and pushes x + y, x - y, x * y, the truncating quotient  *)
(* x / y, its remainder x % y, or 1 if x > y else 0; the values beneath    *)
(* stay, so a stack of two or more loses one value                         *)
C15_BinaryOperandOrder ==
    (NormalStep(BinaryTags) /\ last.res = "Cont") =>
        LET s == Pad(last.stack, 2)
            n == Len(s)
            x == s[n - 1]
            y == s[n]
            r == stack[Len(stack)]
            tag == last.cmd.tag
        IN  /\ stack # <<>>
            /\ stack = SubSeq(s, 1, n - 2) \o <<r>>
            /\ (Len(last.stack) >= 2 => Len(stack) = Len(last.stack) - 1)
            /\ (tag = "Add" => r = x + y)
            /\ (tag = "Sub" => r = x - y)
            /\ (tag = "Mul" => r = x * y)
            /\ (tag = "Div" => y # 0 /\ TruncQuot(x, y, r))
            /\ (tag = "Mod" => y # 0 /\ \E q \in (-abs(x))..abs(x) :
                                           TruncQuot(x, y, q) /\ r = x - q * y)
            /\ (tag = "Gt" => r = IF x > y THEN 1 ELSE 0)

C15_Witness ==
    /\ NormalStep({"Div"})
    /\ last.stack = <<5, -7, 2>>
    /\ stack = <<5, -3>>

----------------------------------------------------------------------------
(* C16: in normal mode a step on a Char cell completes, pushes one value,  *)
(* a decimal digit's, above the stack it found, and moves the pc one cell  *)
(* in the current direction                                                *)
C16_CharPushesDigit ==
    NormalStep({"Char"}) =>
        /\ last.res = "Cont"
        /\ Len(stack) = Len(last.stack) + 1
        /\ SubSeq(stack, 1, Len(last.stack)) = last.stack
        /\ stack[Len(stack)] \in 0..9
        /\ pc = advance_pc(last.pc, last.dir)

----------------------------------------------------------------------------
(* C17: a step changes the playfield only when it is a Put in normal mode  *)
(* whose x is in 0..79, y in 0..24 and value in 0..255; it then completes  *)
(* and changes exactly the cell (x, y), to the decoding of the value.      *)
(* Every other step (a Put that fails included, a string-mode step on a p  *)
(* cell included) and every other move of the run leaves all cells alone.  *)
C17_GridFrame ==
    [][IF phase = "step" /\ nsteps' = nsteps + 1
       THEN LET s == Pad(stack, 3)
                n == Len(s)
                y == s[n]
                x == s[n - 1]
                v == s[n - 2]
                isPut == ~stringmode /\ playfield[pc.y][pc.x].tag = "Put"
                good == x \in 0..79 /\ y \in 0..24 /\ v \in 0..255
            IN  IF isPut /\ good
                THEN /\ last'.res = "Cont"
                     /\ playfield' = [playfield EXCEPT ![y][x] = from_char(v)]
                ELSE /\ playfield' = playfield
                     /\ (isPut => last'.res = "Err")
       ELSE loads' = loads => playfield' = playfield]_vars

C17_Witness ==
    /\ prog = P_putget
    /\ NormalStep({"Put"})
    /\ last.res = "Cont"
    /\ last.stack = <<7, 0, 0>>
    /\ playfield[0][0] = Char(7)
    /\ playfield[0][1] = Num(0)

----------------------------------------------------------------------------
(* The cell two cells from p in direction d, on the torus *)
TwoCells(p, d) ==
    CASE d = "Right" -> [x |-> (p.x + 2) % 80, y |-> p.y]
      [] d = "Left" -> [x |-> (p.x + 78) % 80, y |-> p.y]
      [] d = "Down" -> [x |-> p.x, y |-> (p.y + 2) % 25]
      [] d = "Up" -> [x |-> p.x, y |-> (p.y + 23) % 25]

(* C18: a step on a Bri cell in normal mode completes, leaves the pc two   *)
(* cells on in the current direction, and changes nothing else: whatever   *)
(* the cell in between holds has no effect                                 *)
C18_BridgeSkips ==
    [][(/\ phase = "step" /\ nsteps' = nsteps + 1
        /\ ~stringmode /\ playfield[pc.y][pc.x].tag = "Bri") =>
           /\ last'.res = "Cont"
           /\ pc' = TwoCells(pc, dir)
           /\ UNCHANGED <<playfield, dir, stack, stringmode, output, stdin>>]_vars

C18_Witness ==
    /\ prog = P_bristr
    /\ NormalStep({"Bri"})
    /\ last.pc = [x |-> 0, y |-> 0]
    /\ playfield[0][1] = Cmd("Str")
    /\ pc = [x |-> 2, y |-> 0]
    /\ ~stringmode

----------------------------------------------------------------------------
(* The cell next to p in direction d, on the torus *)
OneCell(p, d) ==
    CASE d = "Right" -> [x |-> (p.x + 1) % 80, y |-> p.y]
      [] d = "Left" -> [x |-> (p.x + 79) % 80, y |-> p.y]
      [] d = "Down" -> [x |-> p.x, y |-> (p.y + 1) % 25]
      [] d = "Up" -> [x |-> p.x, y |-> (p.y + 24) % 25]

(* The direction a completed step leaves, from the state before it *)
DirAfter(normal, tag, top, new) ==
    IF normal /\ tag \in {"Right", "Left", "Up", "Down"} THEN new = tag
    ELSE IF normal /\ tag = "IfH" THEN new = IF top = 0 THEN "Right" ELSE "Left"
    ELSE IF normal /\ tag = "IfV" THEN new = IF top = 0 THEN "Down" ELSE "Up"
    ELSE IF normal /\ tag = "Rand" THEN new \in Directions
    ELSE new = dir

(* C19: a step that completes, other than a Bri in normal mode, leaves the *)
(* pc one cell from where it was, in the direction the step left: the one  *)
(* a direction command, Rand, IfH or IfV has just set, the old one after   *)
(* any other command.  A step on an End cell in normal mode returns Stop   *)
(* and changes neither the pc nor anything else of the engine.             *)
C19_AdvanceAfterCommand ==
    [][(phase = "step" /\ nsteps' = nsteps + 1) =>
           LET tag == playfield[pc.y][pc.x].tag
               normal == ~stringmode
               top == IF stack = <<>> THEN 0 ELSE stack[Len(stack)]
           IN  /\ (last'.res = "Cont" /\ ~(normal /\ tag = "Bri")) =>
                      /\ DirAfter(normal, tag, top, dir')
                      /\ pc' = OneCell(pc, dir')
               /\ (normal /\ tag = "End") =>
                      /\ last'.res = "Stop"
                      /\ UNCHANGED <<pc, playfield, dir, stack, stringmode,
                                     output, stdin>>
               /\ (last'.res = "Stop" => normal /\ tag = "End")]_vars

C19_Witness ==
    /\ NormalStep({"IfH"})
    /\ last.res = "Cont"
    /\ last.stack = <<5>>
    /\ last.dir = "Right"
    /\ last.pc = [x |-> 1, y |-> 0]
    /\ dir = "Left"
    /\ pc = [x |-> 0, y |-> 0]

----------------------------------------------------------------------------
(* The stack st without its top k values, those it lacks read as zeros *)
Drop(st, k) ==
    LET s == Pad(st, k) IN SubSeq(s, 1, Len(s) - k)

(* The operands of the last step by their depth: y on top, x below it *)
XOutOfRange == Pad(last.stack, 2)[Len(Pad(last.stack, 2)) - 1] \notin 0..79
YOutOfRange == Pad(last.stack, 2)[Len(Pad(last.stack, 2))] \notin 0..24

(* What the Get and Put steps share: the coordinate errors name x, the     *)
(* value below the top, before y, the top; a Get pops the two and, when    *)
(* neither is out of range, pushes one value                               *)
GetPutOperands ==
    /\ NormalStep({"Get", "Put"}) =>
           /\ (last.err = "coord_x") = XOutOfRange
           /\ (last.err = "coord_y") = (~XOutOfRange /\ YOutOfRange)
    /\ NormalStep({"Get"}) =>
           IF XOutOfRange \/ YOutOfRange
           THEN last.res = "Err" /\ stack = Drop(last.stack, 2)
           ELSE /\ last.res = "Cont"
                /\ Len(stack) = Len(Drop(last.stack, 2)) + 1
                /\ SubSeq(stack, 1, Len(stack) - 1) = Drop(last.stack, 2)

(* C20, as the claim states it: after every Put step, failed on a          *)
(* coordinate, failed on the value or completed, the stack has lost y, x   *)
(* and the value; Get pops y then x and on success pushes one value        *)
C20_PutPopsThree ==
    /\ GetPutOperands
    /\ NormalStep({"Put"}) => stack = Drop(last.stack, 3)

(* C20, amended: a Put step that fails on a coordinate has popped y and x  *)
(* only, the value is still on the stack; a Put step that fails on the     *)
(* value or completes has popped all three; Get pops y then x and on       *)
(* success pushes one value                                                *)
C20_PutPopsBeforeBail ==
    /\ GetPutOperands
    /\ NormalStep({"Put"}) =>
           IF XOutOfRange \/ YOutOfRange
           THEN last.res = "Err" /\ stack = Drop(last.stack, 2)
           ELSE /\ last.err \in {"none", "value"}
                /\ stack = Drop(last.stack, 3)

C20_Witness ==
    /\ NormalStep({"Put"})
    /\ last.err = "coord_x"
    /\ last.stack = <<65, 80, 0>>
    /\ stack = <<65>>

====
